---- MODULE Spec2Model ----
(***************************************************************************)
(* A model of the CSR agent service (hazeljs-csr-agent): CSRService        *)
(* (src/src/csr/csr.controller.ts), CSRAgent (src/src/csr/csr.agent.ts)    *)
(* and CSRGateway (src/src/csr/csr.gateway.ts).                            *)
(*                                                                         *)
(* The AgentRuntime, the RAG service and the vector stores come from       *)
(* packages outside the repository.  The service's own code is modelled    *)
(* from its source; the runtime's approval gate and agent loop and the     *)
(* knowledge backend are modelled from the contracts of spec.md (sections  *)
(* 4.1-4.3) and are marked as such where they are defined.                 *)
(***************************************************************************)
EXTENDS Integers, Sequences, FiniteSets, TLC

(***************************************************************************)
(* Bounds of the model.                                                    *)
(***************************************************************************)
MaxChats == 2          \* chat calls made during one run
MaxRequests == 1       \* approval requests the runtime creates
MaxManual == 2         \* approveTool calls made by transports
MaxSteps == 2          \* steps of one execution, where the step limit is not at issue
TimeStep == 10000      \* milliseconds the clock advances at a time
MaxTime == 50000       \* last clock reading of a run
MaxDocs == 2           \* documents ingested
MaxInvalid == 2        \* 'message' events without a usable text

(***************************************************************************)
(* Program constants.                                                      *)
(***************************************************************************)
AutoApproveDelay == 30000     \* setTimeout(..., 30000)
RefundTimeout == 60000        \* processRefund: timeout: 60000
DefaultTopK == 5              \* const topK = input.topK || 5
MinScore == 5                 \* minScore: 0.5, in tenths
AgentMaxSteps == 15           \* @Agent maxSteps: 15 (defaultMaxSteps: 15 as well)

ChatIds == 1..MaxChats
RequestIds == 1..MaxRequests

\* approvedBy values a transport passes to approveTool
Approvers == {"alice"}
\* the identity the service's timer passes to approveToolExecution
AutoTimeout == "auto-timeout"

\* The tools of CSRAgent marked requiresApproval: true.
ApprovalTools == {"processRefund", "updateShippingAddress"}

\* The tools of CSRAgent that declare a timeout.
HasTimeout(tool) == tool = "processRefund"

\* An optional string argument (sessionId?: string).
NoValue == [given |-> FALSE, value |-> ""]
Some(s) == [given |-> TRUE, value |-> s]

VARIABLES
    now,              \* Date.now(), in milliseconds
    chats,            \* the chat calls: chat id -> the call's record
    requests,         \* the runtime's approval requests, by request id
    timers,           \* the service's armed setTimeout callbacks
    runtimeCalls,     \* the approve/reject calls the service has issued
    approvalHandlers, \* CSRService.approvalHandlers: the ids it holds
    frames,           \* what the gateway and chatStream have written
    ragService,       \* CSRService.ragService: the RAG instance it points to
    agentRag,         \* CSRAgent.ragService: the RAG instance it points to
    configRag,        \* runtime.config.ragService
    backends,         \* the RAG instances: their store and what it holds
    initStatus,       \* how far CSRService.initialize() has come
    healthResp,       \* what the last health() call returned
    env,              \* process.env and the store packages, as the constructor finds them
    clients,          \* the gateway's connected clients
    events            \* the TOOL_APPROVAL_REQUESTED events handled: how many with an id, how many without

approvalVars == <<requests, timers, runtimeCalls, approvalHandlers, events>>
ragVars == <<ragService, agentRag, configRag, backends, initStatus, healthResp, env>>
transportVars == <<clients>>
vars == <<now, chats, requests, timers, runtimeCalls, approvalHandlers, frames,
          ragService, agentRag, configRag, backends, initStatus, healthResp, env,
          clients, events>>

----------------------------------------------------------------------------
(***************************************************************************)
(* The approval gate of the runtime (spec.md 4.2).                         *)
(***************************************************************************)

\* A resolve that overwrites an earlier resolution.
GateResolveOverwriting(reqs, rid, resolution, by) ==
    IF rid \in 1..Len(reqs)
    THEN [reqs EXCEPT ![rid].resolution = resolution, ![rid].resolvedBy = by]
    ELSE reqs

\* resolve(requestId, ...): the first resolution of a pending request wins;
\* a resolve of a resolved or unknown request is a no-op.
GateResolve(reqs, rid, resolution, by) ==
    IF rid \in 1..Len(reqs) /\ reqs[rid].resolution = "pending"
    THEN [reqs EXCEPT ![rid].resolution = resolution, ![rid].resolvedBy = by]
    ELSE reqs

\* The timeouts a request may get when its tool declares none.
UnspecifiedTimeouts == {AutoApproveDelay - TimeStep, AutoApproveDelay + TimeStep}

\* The deadlines request(toolName, args, timeout) may set at time t.
GateDeadlines(tool, t) ==
    IF HasTimeout(tool) THEN {t + RefundTimeout}
    ELSE {t + d : d \in UnspecifiedTimeouts}

----------------------------------------------------------------------------
(***************************************************************************)
(* CSRService: the approval handler, its timer and approveTool.            *)
(***************************************************************************)

\* An event that carries no request id (event.data?.requestId is undefined).
NoId == [given |-> FALSE, value |-> 0]
EventWithoutId == [requestId |-> NoId]

\* The handler arming its timer for an event with or without a request id.
OnApprovalRequestedAnyEvent(tms, handlers, event, t) ==
    IF event.requestId.given /\ event.requestId.value \in handlers
    THEN tms
    ELSE tms \cup {[requestId |-> event.requestId.value,
                    due |-> t + AutoApproveDelay]}

\* The handler with the timer left out.
OnApprovalRequestedNoTimer(tms, handlers, event, t) ==
    tms

\* runtime.on(TOOL_APPROVAL_REQUESTED, ...): returns at once when a handler is
\* registered for the event's request id; otherwise, when the event carries a
\* request id, arms a timer due 30 s later.  No timer is ever cleared.
OnApprovalRequested(tms, handlers, event, t) ==
    IF event.requestId.given /\ event.requestId.value \in handlers
    THEN tms
    ELSE IF event.requestId.given
         THEN tms \cup {[requestId |-> event.requestId.value,
                         due |-> t + AutoApproveDelay]}
         ELSE tms

\* The timer's callback: approveToolExecution(requestId, 'auto-timeout')
\* unless a handler is registered for the id by then.
TimerCallback(calls, handlers, rid) ==
    IF rid \in handlers
    THEN calls
    ELSE Append(calls, [op |-> "approve", requestId |-> rid, by |-> AutoTimeout])

\* The call forwarded as an approval whatever the decision.
ApproveToolCallAlwaysApprove(rid, approved, approvedBy) ==
    [op |-> "approve", requestId |-> rid, by |-> approvedBy]

\* approveTool, first half: the call it forwards to the runtime.
ApproveToolCall(rid, approved, approvedBy) ==
    IF approved
    THEN [op |-> "approve", requestId |-> rid, by |-> approvedBy]
    ELSE [op |-> "reject", requestId |-> rid, by |-> ""]

\* approveTool, second half: the waiter registered for the id, if any, is
\* resolved and deleted; the other waiters are left alone.
ApproveToolHandlers(handlers, rid) ==
    handlers \ {rid}

\* runtime.approveToolExecution / runtime.rejectToolExecution on the gate.
RuntimeApply(reqs, call) ==
    GateResolve(reqs, call.requestId,
                IF call.op = "approve" THEN "approved" ELSE "rejected", call.by)

IsAuto(call) == call.op = "approve" /\ call.by = AutoTimeout
IsManual(call) == ~IsAuto(call)
ManualCount == Cardinality({i \in 1..Len(runtimeCalls) : IsManual(runtimeCalls[i])})

----------------------------------------------------------------------------
(***************************************************************************)
(* CSRService.chat.                                                        *)
(***************************************************************************)

\* A session id that ignores the one the caller supplied.
SessionIdForFresh(arg, t) ==
    "session-" \o ToString(t)

\* const sid = sessionId || `session-${Date.now()}`: an absent or empty
\* sessionId is falsy.
SessionIdFor(arg, t) ==
    IF arg.given /\ arg.value # ""
    THEN arg.value
    ELSE "session-" \o ToString(t)

\* One source entry: the document's id, content, score and metadata.
SourceOf(doc) ==
    [id |-> doc.id, content |-> doc.content, score |-> doc.score,
     metadata |-> doc.metadata]

\* The loop body's tests: a use_tool step of searchKnowledgeBase whose output
\* has a documents list.
IsSearchStep(step) ==
    /\ step.type = "use_tool"
    /\ step.toolName = "searchKnowledgeBase"
    /\ step.hasDocs

\* The documents pushed last to first.
RECURSIVE PushDocsReversed(_, _)
PushDocsReversed(sources, docs) ==
    IF docs = <<>> THEN sources
    ELSE PushDocsReversed(Append(sources, SourceOf(docs[Len(docs)])),
                          SubSeq(docs, 1, Len(docs) - 1))

\* for (const doc of output.documents) sources.push({...})
RECURSIVE PushDocs(_, _)
PushDocs(sources, docs) ==
    IF docs = <<>> THEN sources
    ELSE PushDocs(Append(sources, SourceOf(Head(docs))), Tail(docs))

\* for (const step of result.steps) ..., from the empty list
RECURSIVE ExtractFrom(_, _)
ExtractFrom(sources, steps) ==
    IF steps = <<>> THEN sources
    ELSE ExtractFrom(IF IsSearchStep(Head(steps))
                     THEN PushDocs(sources, Head(steps).docs)
                     ELSE sources,
                     Tail(steps))

ExtractSources(steps) == ExtractFrom(<<>>, steps)

\* The sources field returned as collected, empty or not.
SourcesFieldAlways(sources) ==
    [present |-> TRUE, list |-> sources]

\* sources: sources.length > 0 ? sources : undefined
SourcesField(sources) ==
    IF Len(sources) > 0
    THEN [present |-> TRUE, list |-> sources]
    ELSE [present |-> FALSE, list |-> <<>>]

NoResponse ==
    [response |-> "", executionId |-> "", sessionId |-> "", steps |-> 0,
     duration |-> 0, sources |-> [present |-> FALSE, list |-> <<>>]]

\* The response with the last step left out of the count.
ChatResponseWithoutLastStep(result, sid) ==
    [response |-> IF result.response = ""
                  THEN "I could not generate a response."
                  ELSE result.response,
     executionId |-> result.executionId,
     sessionId |-> sid,
     steps |-> IF Len(result.steps) > 0 THEN Len(result.steps) - 1 ELSE 0,
     duration |-> IF result.duration.given THEN result.duration.value ELSE 0,
     sources |-> SourcesField(ExtractSources(result.steps))]

\* The object chat returns.
ChatResponse(result, sid) ==
    [response |-> IF result.response = ""
                  THEN "I could not generate a response."
                  ELSE result.response,
     executionId |-> result.executionId,
     sessionId |-> sid,
     steps |-> Len(result.steps),
     duration |-> IF result.duration.given THEN result.duration.value ELSE 0,
     sources |-> SourcesField(ExtractSources(result.steps))]

----------------------------------------------------------------------------
(***************************************************************************)
(* The transports: CSRGateway (WebSocket) and CSRController.chatStream     *)
(* (server-sent events).  A message text is a sequence of parts, so that   *)
(* "contains" can be asked of it.                                          *)
(***************************************************************************)

Contains(message, text) == \E i \in 1..Len(message) : message[i] = text

\* error instanceof Error ? error.message : 'Unknown error'
ErrorMessage(err) ==
    IF err.isError THEN <<err.text>> ELSE <<"Unknown error">>

\* String(error): an Error prints as "Error: <message>", a thrown string as
\* itself.
StringOf(err) ==
    IF err.isError THEN <<"Error: ", err.text>> ELSE <<err.text>>

NoData == NoResponse

\* The real-time clients; a frame's channel is the client it is sent to, or
\* "sse" for a frame written to an event stream.
WsClients == {"ws", "ws2"}

Frame(channel, chat, type, message, data) ==
    [channel |-> channel, chat |-> chat, type |-> type, message |-> message,
     data |-> data]

\* The payload of the gateway's 'response' frame.
WsResponseData(resp) ==
    [response |-> resp.response, sessionId |-> resp.sessionId,
     steps |-> resp.steps, duration |-> resp.duration, sources |-> resp.sources]

\* What a transport writes before it awaits chat: the gateway sends
\* 'thinking'; chatStream only sets headers.
OnChatStart(fs, origin, c) ==
    IF origin \in WsClients
    THEN Append(fs, Frame(origin, c, "thinking", <<"Processing your request...">>, NoData))
    ELSE fs

\* The event stream left open after its frame.
OnChatReturnLeftOpen(fs, origin, c, resp) ==
    CASE origin \in WsClients ->
           Append(fs, Frame(origin, c, "response", <<>>, WsResponseData(resp)))
      [] origin = "sse" ->
           Append(fs, Frame("sse", c, "response", <<>>, resp))
      [] OTHER -> fs

\* What a transport writes when chat returns.
OnChatReturn(fs, origin, c, resp) ==
    CASE origin \in WsClients ->
           Append(fs, Frame(origin, c, "response", <<>>, WsResponseData(resp)))
      [] origin = "sse" ->
           fs \o << Frame("sse", c, "response", <<>>, resp),
                    Frame("sse", c, "end", <<>>, NoData) >>
      [] OTHER -> fs

\* What a transport writes when chat throws.
OnChatThrow(fs, origin, c, err) ==
    CASE origin \in WsClients ->
           Append(fs, Frame(origin, c, "error", ErrorMessage(err), NoData))
      [] origin = "sse" ->
           fs \o << Frame("sse", c, "error", StringOf(err), NoData),
                    Frame("sse", c, "end", <<>>, NoData) >>
      [] OTHER -> fs

\* A value of a message's data.text: undefined, null, a string or a number.
Undefined == [kind |-> "undefined", str |-> ""]
StringValue(str) == [kind |-> "string", str |-> str]

\* const { text } = (message.data || {})
TextOf(msg) == IF msg.hasData THEN msg.text ELSE Undefined

\* The test that lets a text through only when it is missing.
InvalidTextMissingOnly(text) == text.kind = "undefined"

\* !text || typeof text !== 'string': undefined, null, '' and 0 are falsy,
\* and any other value that is not a string fails the second test.
InvalidText(text) == text.kind # "string" \/ text.str = ""

\* The frame handleMessage sends for a message without a usable text.
InvalidMessageFrame(client) ==
    Frame(client, 0, "error", <<"Invalid message: text is required">>, NoData)

\* The frame handleConnection sends.
ConnectedFrame(client) ==
    Frame(client, 0, "connected", <<"Connected to CSR agent.">>, NoData)

----------------------------------------------------------------------------
(***************************************************************************)
(* The knowledge backend (spec.md 4.3) and the code that uses it.          *)
(***************************************************************************)

\* An environment variable: unset, or set to a string, given as the sequence
\* of its characters.
Unset == [given |-> FALSE, value |-> <<>>]
SetTo(s) == [given |-> TRUE, value |-> s]

\* String.prototype.trim(): leading and trailing whitespace is removed.
RECURSIVE TrimStart(_)
TrimStart(s) ==
    IF s # <<>> /\ Head(s) = " " THEN TrimStart(Tail(s)) ELSE s

RECURSIVE TrimEnd(_)
TrimEnd(s) ==
    IF s # <<>> /\ s[Len(s)] = " " THEN TrimEnd(SubSeq(s, 1, Len(s) - 1)) ELSE s

Trim(s) == TrimEnd(TrimStart(s))

\* process.env.X?.trim() is truthy: the variable is set and not blank.
Configured(v) == v.given /\ Trim(v.value) # <<>>

\* createVectorStore: the Pinecone store when the key is configured and its
\* constructor returns; else the Qdrant store when the URL is configured and
\* its constructor returns; else the in-memory store.  A constructor that
\* throws is caught and the code runs on to the next test.
CreateVectorStore(e) ==
    IF Configured(e.pineconeKey) /\ "pinecone" \notin e.throwing
    THEN "pinecone"
    ELSE IF Configured(e.qdrantUrl) /\ "qdrant" \notin e.throwing
         THEN "qdrant"
         ELSE "memory"

\* The RAG instances: the one the constructor builds around the store
\* createVectorStore returns, and the one initialize() builds around a
\* MemoryVectorStore when the first fails to initialize.
Instances == {"primary", "fallback"}

\* A remote store that cannot be reached fails every call; the in-process
\* store is always available.
Usable(b) == b.kind = "memory" \/ b.reachable

RECURSIVE SelectDocs(_, _)
SelectDocs(docs, topic) ==
    IF docs = <<>> THEN <<>>
    ELSE IF Head(docs).topic = topic /\ Head(docs).score >= MinScore
         THEN <<Head(docs)>> \o SelectDocs(Tail(docs), topic)
         ELSE SelectDocs(Tail(docs), topic)

FirstN(seq, n) == IF Len(seq) <= n THEN seq ELSE SubSeq(seq, 1, n)

\* search(query, {topK, minScore}): the documents about the query's topic
\* that score at least minScore, at most topK of them.
BackendSearch(b, query, topK) ==
    FirstN(SelectDocs(b.docs, query), topK)

\* index({content, metadata}): the store holds one more document.
BackendIndex(b, title, content, topic) ==
    [b EXCEPT !.docs = Append(@,
        [id |-> "doc-" \o ToString(Len(b.docs) + 1), content |-> content,
         score |-> 9, metadata |-> "title=" \o title, topic |-> topic])]

\* ingestDocument: the content indexed is the title, a blank line and the
\* content.
IngestContent(title, content) == title \o "\n\n" \o content

\* The document the search tool returns for a result of the backend.
ToolDocument(result) ==
    [id |-> result.id, content |-> result.content, score |-> result.score,
     metadata |-> IF result.metadata = "" THEN "{}" ELSE result.metadata]

\* The documents listed last to first.
RECURSIVE ToolDocumentsReversed(_)
ToolDocumentsReversed(results) ==
    IF results = <<>> THEN <<>>
    ELSE ToolDocumentsReversed(Tail(results)) \o <<ToolDocument(Head(results))>>

\* results.map((result) => ({...}))
RECURSIVE ToolDocuments(_)
ToolDocuments(results) ==
    IF results = <<>> THEN <<>>
    ELSE <<ToolDocument(Head(results))>> \o ToolDocuments(Tail(results))

\* CSRAgent.searchKnowledgeBase on the instance the agent holds: the
\* backend's results, or on a failure success=false, the error's message and
\* no documents.
SearchKnowledgeBase(b, query, topK, err) ==
    IF Usable(b)
    THEN LET results == BackendSearch(b, query, IF topK = 0 THEN DefaultTopK ELSE topK)
         IN  [success |-> TRUE, query |-> query, error |-> <<>>,
              documents |-> ToolDocuments(results), totalResults |-> Len(results)]
    ELSE [success |-> FALSE, query |-> query, error |-> ErrorMessage(err),
          documents |-> <<>>, totalResults |-> 0]

\* CSRController.health: { status: 'ok', ...result } when the runtime's
\* health check resolves (the result's own fields come last), and
\* { status: 'degraded' } when it throws.
Health(check) ==
    CASE check.kind = "throws" -> [called |-> TRUE, threw |-> TRUE, status |-> "degraded"]
      [] check.kind = "absent" -> [called |-> TRUE, threw |-> FALSE, status |-> "ok"]
      [] OTHER -> [called |-> TRUE, threw |-> FALSE,
                   status |-> IF check.hasStatus THEN check.status ELSE "ok"]

----------------------------------------------------------------------------
(***************************************************************************)
(* The state machine.                                                      *)
(***************************************************************************)

NoResult ==
    [response |-> "", executionId |-> "", steps |-> <<>>,
     duration |-> [given |-> FALSE, value |-> 0], status |-> ""]

\* The status the agent loop seals an execution with when it ends of its
\* own: the loop is forced to end when the step index reaches maxSteps.
ExecutionStatus(steps) ==
    IF Len(steps) = AgentMaxSteps THEN "step_limit_exceeded" ELSE "completed"

\* The execution has room left under the bound of the model.
Within(c) == Len(chats[c].steps) < MaxSteps

NoError == [isError |-> FALSE, text |-> ""]

\* A chat call that has not been made.
IdleChat ==
    [st |-> "idle", origin |-> "", arg |-> NoValue, sid |-> "",
     steps |-> <<>>, waiting |-> 0, result |-> NoResult, resp |-> NoResponse,
     error |-> NoError]

\* A step of an execution, as chat and the agent loop read it: the action's
\* type and tool name, whether the result's output has a documents list, the
\* list, for a tool call that needed approval its request and outcome, and
\* for a search the query and topK it was called with and the totalResults
\* and the error the tool reported.
Step(type, toolName, hasDocs, docs, outcome) ==
    [type |-> type, toolName |-> toolName, hasDocs |-> hasDocs, docs |-> docs,
     outcome |-> outcome, requestId |-> 0, query |-> "", topK |-> 0,
     totalResults |-> 0, error |-> <<>>]

Backend(kind, reachable) ==
    [kind |-> kind, reachable |-> reachable, ready |-> FALSE, docs |-> <<>>]

\* The service as constructed in environment e, around the store
\* createVectorStore returned.
InitWith(e, reachable) ==
    /\ env = e
    /\ now = 0
    /\ chats = [c \in ChatIds |-> IdleChat]
    /\ requests = <<>>
    /\ timers = {}
    /\ runtimeCalls = <<>>
    /\ approvalHandlers = {}
    /\ frames = <<>>
    /\ ragService = "primary"
    /\ agentRag = "primary"
    /\ configRag = "primary"
    /\ backends = [i \in Instances |->
                     IF i = "primary" THEN Backend(CreateVectorStore(e), reachable)
                     ELSE Backend("memory", TRUE)]
    /\ initStatus = "constructed"
    /\ healthResp = [called |-> FALSE, threw |-> FALSE, status |-> ""]
    /\ clients = {}
    /\ events = [withId |-> 0, withoutId |-> 0]

\* The environment with neither store configured.
NoEnv == [pineconeKey |-> Unset, qdrantUrl |-> Unset, throwing |-> {}]

\* With no store configured the constructor builds the in-process store.
Init == InitWith(NoEnv, TRUE)

\* One environment for each store.
RagEnvs ==
    { NoEnv,
      [NoEnv EXCEPT !.pineconeKey = SetTo(<<"pc-key">>)],
      [NoEnv EXCEPT !.qdrantUrl = SetTo(<<"http://qdrant:6333">>)] }

\* A configured remote store may or may not be reachable.
InitRag ==
    \E e \in RagEnvs, reachable \in BOOLEAN :
        /\ CreateVectorStore(e) = "memory" => reachable
        /\ InitWith(e, reachable)

\* The values PINECONE_API_KEY and QDRANT_URL may have: unset, empty, blank,
\* or a value with whitespace around it.
PineconeKeys == {Unset, SetTo(<<>>), SetTo(<<" ", " ">>), SetTo(<<" ", "pc-key", " ">>)}
QdrantUrls == {Unset, SetTo(<<>>), SetTo(<<" ">>), SetTo(<<"http://qdrant:6333">>)}

\* The environments the service may be constructed in: the two variables,
\* and the stores whose constructor throws (a package that is not installed).
Envs ==
    [pineconeKey : PineconeKeys, qdrantUrl : QdrantUrls,
     throwing : SUBSET {"pinecone", "qdrant"}]

\* Any environment; a remote store may or may not be reachable.
InitStore ==
    \E e \in Envs, reachable \in BOOLEAN :
        /\ CreateVectorStore(e) = "memory" => reachable
        /\ InitWith(e, reachable)

\* chat(message, sessionId, userId) up to its await, with what its transport
\* does before calling it: the session id is settled and runtime.execute is
\* called with it.  Chat calls are numbered in the order they are made.  The
\* gateway calls chat only for a client it finds among its clients.
ChatStart(c, arg, origin) ==
    /\ chats[c].st = "idle"
    /\ origin \in WsClients => origin \in clients
    /\ \A d \in ChatIds : d < c => chats[d].st # "idle"
    /\ chats' = [chats EXCEPT ![c].st = "executing", ![c].arg = arg,
                              ![c].origin = origin,
                              ![c].sid = SessionIdFor(arg, now)]
    /\ frames' = OnChatStart(frames, origin, c)
    /\ UNCHANGED <<now, approvalVars, ragVars, transportVars>>

\* handleConnection: the client is added to the gateway's clients and is
\* sent the 'connected' frame.
Connect(client) ==
    /\ client \notin clients
    /\ clients' = clients \cup {client}
    /\ frames' = Append(frames, ConnectedFrame(client))
    /\ UNCHANGED <<now, chats, approvalVars, ragVars>>

\* handleMessage for a message of a connected client: an event other than
\* 'message' is left to the base class; a 'message' without a usable text
\* is answered with an 'error' frame; any other goes to handleChatMessage,
\* which sends 'thinking' and calls chat.
HandleMessage(c, client, msg) ==
    /\ client \in clients
    /\ IF msg.event # "message"
       THEN UNCHANGED vars
       ELSE IF InvalidText(TextOf(msg))
            THEN /\ frames' = Append(frames, InvalidMessageFrame(client))
                 /\ UNCHANGED <<now, chats, approvalVars, ragVars, transportVars>>
            ELSE ChatStart(c, msg.sessionId, client)

\* The agent loop records a reasoning step or the step of a tool that needs
\* no approval, while the step index is below maxSteps.
RuntimeStep(c, step) ==
    /\ chats[c].st = "executing"
    /\ Len(chats[c].steps) < AgentMaxSteps
    /\ chats' = [chats EXCEPT ![c].steps = Append(@, step)]
    /\ UNCHANGED <<now, approvalVars, frames, ragVars, transportVars>>

\* The agent loop runs the searchKnowledgeBase tool and records its step.
RuntimeSearch(c, query, topK, err) ==
    /\ chats[c].st = "executing"
    /\ Len(chats[c].steps) < AgentMaxSteps
    /\ LET out == SearchKnowledgeBase(backends[agentRag], query, topK, err) IN
        chats' = [chats EXCEPT ![c].steps = Append(@,
                    [Step("use_tool", "searchKnowledgeBase", TRUE, out.documents,
                          IF out.success THEN "success" ELSE "failure")
                       EXCEPT !.query = query, !.topK = topK,
                              !.totalResults = out.totalResults,
                              !.error = out.error])]
    /\ UNCHANGED <<now, approvalVars, frames, ragVars, transportVars>>

\* The agent loop dispatches a tool marked requiresApproval: the gate
\* registers a request, the runtime emits TOOL_APPROVAL_REQUESTED (the
\* service's handler runs within the emit) and the loop suspends.
RuntimeRequestApproval(c, tool, deadline) ==
    /\ chats[c].st = "executing"
    /\ Len(chats[c].steps) < AgentMaxSteps
    /\ Len(requests) < MaxRequests
    /\ now + AutoApproveDelay + TimeStep <= MaxTime
    /\ LET rid == Len(requests) + 1 IN
        /\ requests' = Append(requests,
              [tool |-> tool, chat |-> c, createdAt |-> now,
               deadline |-> deadline, resolution |-> "pending",
               resolvedBy |-> ""])
        /\ timers' = OnApprovalRequested(timers, approvalHandlers,
                                         [requestId |-> Some(rid)], now)
        /\ events' = [events EXCEPT !.withId = @ + 1]
        /\ chats' = [chats EXCEPT ![c].st = "awaiting", ![c].waiting = rid]
    /\ UNCHANGED <<now, runtimeCalls, approvalHandlers, frames, ragVars, transportVars>>

\* The runtime emits TOOL_APPROVAL_REQUESTED without a request id, and the
\* service's handler runs.
ApprovalEventWithoutId ==
    /\ timers' = OnApprovalRequested(timers, approvalHandlers, EventWithoutId, now)
    /\ events' = [events EXCEPT !.withoutId = @ + 1]
    /\ UNCHANGED <<now, chats, requests, runtimeCalls, approvalHandlers, frames,
                   ragVars, transportVars>>

\* The loop resumes once its request is resolved: the step of the tool call
\* records the outcome (the tool ran, or the denial).
RuntimeResume(c) ==
    /\ chats[c].st = "awaiting"
    /\ requests[chats[c].waiting].resolution # "pending"
    /\ LET r == requests[chats[c].waiting] IN
        chats' = [chats EXCEPT
                    ![c].st = "executing", ![c].waiting = 0,
                    ![c].steps = Append(@,
                        [Step("use_tool", r.tool, FALSE, <<>>, r.resolution)
                           EXCEPT !.requestId = chats[c].waiting])]
    /\ UNCHANGED <<now, approvalVars, frames, ragVars, transportVars>>

\* runtime.execute resolves with the execution.
RuntimeFinish(c, response, duration) ==
    /\ chats[c].st = "executing"
    /\ chats' = [chats EXCEPT
                   ![c].st = "finished",
                   ![c].result = [response |-> response,
                                  executionId |-> "exec-" \o ToString(c),
                                  steps |-> chats[c].steps,
                                  duration |-> duration,
                                  status |-> ExecutionStatus(chats[c].steps)]]
    /\ UNCHANGED <<now, approvalVars, frames, ragVars, transportVars>>

\* runtime.execute rejects.
RuntimeThrow(c, err) ==
    /\ chats[c].st = "executing"
    /\ chats' = [chats EXCEPT ![c].st = "failed", ![c].error = err]
    /\ UNCHANGED <<now, approvalVars, frames, ragVars, transportVars>>

\* chat after its await: the sources are collected and the response
\* returned; the transport that called chat passes it on.
ChatReturn(c) ==
    /\ chats[c].st = "finished"
    /\ LET resp == ChatResponse(chats[c].result, chats[c].sid) IN
        /\ chats' = [chats EXCEPT ![c].st = "done", ![c].resp = resp]
        /\ frames' = OnChatReturn(frames, chats[c].origin, c, resp)
    /\ UNCHANGED <<now, approvalVars, ragVars, transportVars>>

\* chat after its await, when runtime.execute rejected: chat has no handler,
\* the rejection is its own, and the transport that called chat reports it.
ChatThrow(c) ==
    /\ chats[c].st = "failed"
    /\ chats' = [chats EXCEPT ![c].st = "thrown"]
    /\ frames' = OnChatThrow(frames, chats[c].origin, c, chats[c].error)
    /\ UNCHANGED <<now, approvalVars, ragVars, transportVars>>

\* approveTool(requestId, approved, approvedBy).
ApproveTool(rid, approved, approvedBy) ==
    /\ ManualCount < MaxManual
    /\ LET call == ApproveToolCall(rid, approved, approvedBy) IN
        /\ runtimeCalls' = Append(runtimeCalls, call)
        /\ requests' = RuntimeApply(requests, call)
    /\ approvalHandlers' = ApproveToolHandlers(approvalHandlers, rid)
    /\ UNCHANGED <<now, chats, timers, events, frames, ragVars, transportVars>>

\* A timer of the service comes due and its callback runs.
TimerFire(t) ==
    /\ t \in timers
    /\ now >= t.due
    /\ timers' = timers \ {t}
    /\ LET calls == TimerCallback(runtimeCalls, approvalHandlers, t.requestId) IN
        /\ runtimeCalls' = calls
        /\ requests' = IF Len(calls) > Len(runtimeCalls)
                       THEN RuntimeApply(requests, calls[Len(calls)])
                       ELSE requests
    /\ UNCHANGED <<now, chats, approvalHandlers, events, frames, ragVars, transportVars>>

\* The gate's deadline passes for a request still pending.
GateExpire(rid) ==
    /\ rid \in 1..Len(requests)
    /\ requests[rid].resolution = "pending"
    /\ now >= requests[rid].deadline
    /\ requests' = GateResolve(requests, rid, "timed_out", "")
    /\ UNCHANGED <<now, chats, timers, runtimeCalls, approvalHandlers, events, frames,
                   ragVars, transportVars>>

\* Nothing is left to run at this clock reading.
NothingDue ==
    /\ \A t \in timers : t.due > now
    /\ \A rid \in 1..Len(requests) :
          requests[rid].resolution = "pending" => requests[rid].deadline > now

\* Time passes.
Advance ==
    /\ now + TimeStep <= MaxTime
    /\ NothingDue
    /\ now' = now + TimeStep
    /\ UNCHANGED <<chats, approvalVars, frames, ragVars, transportVars>>

\* CSRService.initialize(): the RAG service is initialized; if that throws, a
\* new RAG service around a MemoryVectorStore replaces it in the service and
\* in the runtime's configuration and is initialized.  The memory manager is
\* initialized last, and its failure is initialize()'s own.
Initialize(memoryOk) ==
    /\ initStatus = "constructed"
    /\ IF Usable(backends[ragService])
       THEN /\ backends' = [backends EXCEPT ![ragService].ready = TRUE]
            /\ UNCHANGED <<ragService, configRag>>
       ELSE /\ ragService' = "fallback"
            /\ backends' = [backends EXCEPT !["fallback"].ready = TRUE]
            /\ configRag' = "fallback"
    /\ initStatus' = IF memoryOk THEN "initialized" ELSE "memory_failed"
    /\ UNCHANGED <<now, chats, approvalVars, frames, agentRag, healthResp, env,
                   transportVars>>

DocCount == Len(backends["primary"].docs) + Len(backends["fallback"].docs)

\* ingestDocument(title, content, metadata): indexed by the RAG service the
\* service points to; an unreachable store rejects the call.
IngestDocument(title, content, topic) ==
    /\ DocCount < MaxDocs
    /\ Usable(backends[ragService])
    /\ backends' = [backends EXCEPT ![ragService] =
                      BackendIndex(@, title, IngestContent(title, content), topic)]
    /\ UNCHANGED <<now, chats, approvalVars, frames, ragService, agentRag,
                   configRag, initStatus, healthResp, env, transportVars>>

\* GET /health with the outcome of the runtime's health check.
HealthCall(check) ==
    /\ healthResp' = Health(check)
    /\ UNCHANGED <<now, chats, approvalVars, frames, ragService, agentRag,
                   configRag, backends, initStatus, env, transportVars>>

----------------------------------------------------------------------------
(***************************************************************************)
(* Inputs.                                                                 *)
(***************************************************************************)

Doc1 == [id |-> "doc-1", content |-> "Refund Policy\n\nFull refunds within 30 days",
         score |-> 9, metadata |-> "title=Refund Policy"]
Doc2 == [id |-> "doc-2", content |-> "Shipping\n\nOrders ship in 2 days",
         score |-> 6, metadata |-> "{}"]

\* A step in which the model only reasons.
ReasoningStep == Step("reason", "", FALSE, <<>>, "")

\* The steps an execution records for reasoning and for tools that need no
\* approval: a search step's output carries the tool's documents list, unless
\* the step has no output.
SampleSteps ==
    { ReasoningStep,
      Step("use_tool", "lookupOrder", FALSE, <<>>, ""),
      Step("use_tool", "searchKnowledgeBase", TRUE, <<Doc1, Doc2>>, "success"),
      Step("use_tool", "searchKnowledgeBase", TRUE, <<Doc2>>, "success"),
      Step("use_tool", "searchKnowledgeBase", TRUE, <<>>, "failure"),
      Step("use_tool", "searchKnowledgeBase", FALSE, <<>>, "") }

\* The final texts of an execution.
SampleResponses == {"", "Your order has shipped."}

\* The durations of an execution: none, or some milliseconds.
SampleDurations == {[given |-> FALSE, value |-> 0], [given |-> TRUE, value |-> 1200]}
OneDuration == [given |-> TRUE, value |-> 1200]

\* The session ids a caller passes: none, the empty string, one of its own,
\* or one a previous response carried.
SessionArgs ==
    {NoValue, Some(""), Some("customer-1")}
    \cup {Some(chats[d].resp.sessionId) : d \in {e \in ChatIds : chats[e].st = "done"}}

\* What runtime.execute and the backend's search reject with: an Error, or a
\* value that is no Error.
InternalErrors ==
    { [isError |-> TRUE, text |-> "connect ECONNREFUSED 10.0.0.5:6333"],
      [isError |-> FALSE, text |-> "upstream timeout"] }

\* The transports a chat call comes from.
Origins == {"rest", "sse", "ws"}

\* The messages a real-time client sends: another event, a 'message' with no
\* data, and a 'message' whose data.text is missing, null, empty, a number,
\* blank or a sentence.
WsMessages ==
    { [event |-> "ping", hasData |-> FALSE, text |-> Undefined, sessionId |-> NoValue],
      [event |-> "message", hasData |-> FALSE, text |-> Undefined, sessionId |-> NoValue] }
    \cup
    { [event |-> "message", hasData |-> TRUE, text |-> t, sessionId |-> NoValue] :
        t \in { Undefined, [kind |-> "null", str |-> ""], StringValue(""),
                [kind |-> "number", str |-> "42"], StringValue(" "),
                StringValue("Where is my order?") } }

\* The 'message' events answered so far without a chat call.
InvalidCount ==
    Cardinality({i \in 1..Len(frames) :
                    frames[i].type = "error" /\ frames[i].chat = 0})

\* The documents handed to ingestDocument, each about one topic.
IngestInputs ==
    { [title |-> "Refund Policy", content |-> "Full refunds within 30 days",
       topic |-> "refund"],
      [title |-> "Shipping", content |-> "Orders ship in 2 days",
       topic |-> "shipping"] }

\* The queries of the search tool (a query is about one topic) and its topK
\* (0: none given).
Queries == {"refund", "shipping"}
TopKs == {0, 1}

\* The outcomes of the runtime's health check: there is none, it throws, or
\* it resolves with an object that has a status of its own or has none.
HealthChecks ==
    { [kind |-> "absent", hasStatus |-> FALSE, status |-> ""],
      [kind |-> "throws", hasStatus |-> FALSE, status |-> ""],
      [kind |-> "value", hasStatus |-> FALSE, status |-> ""],
      [kind |-> "value", hasStatus |-> TRUE, status |-> "healthy"] }

----------------------------------------------------------------------------
(***************************************************************************)
(* Specifications.                                                         *)
(***************************************************************************)

\* Session ids: chat calls, concurrent or one after the other, as time passes.
NextSession ==
    \/ \E c \in ChatIds, arg \in SessionArgs : ChatStart(c, arg, "rest")
    \/ \E c \in ChatIds : RuntimeFinish(c, "Your order has shipped.", OneDuration)
    \/ \E c \in ChatIds : ChatReturn(c)
    \/ Advance

SpecSession == Init /\ [][NextSession]_vars

\* Source extraction: one chat call and the steps of its execution.
NextSources ==
    \/ ChatStart(1, NoValue, "rest")
    \/ Within(1) /\ \E step \in SampleSteps : RuntimeStep(1, step)
    \/ \E r \in SampleResponses, d \in SampleDurations : RuntimeFinish(1, r, d)
    \/ ChatReturn(1)

SpecSources == Init /\ [][NextSources]_vars

\* The approval handshake: an execution that calls tools needing approval,
\* the transports' approveTool calls, the service's timers and the gate's
\* deadlines.
NextApproval ==
    \/ ChatStart(1, NoValue, "rest")
    \/ Within(1) /\ \E tool \in ApprovalTools :
          \E deadline \in GateDeadlines(tool, now) :
             RuntimeRequestApproval(1, tool, deadline)
    \/ RuntimeResume(1)
    \/ RuntimeFinish(1, "Your refund is on its way.", OneDuration)
    \/ ChatReturn(1)
    \/ \E rid \in RequestIds, approved \in BOOLEAN, by \in Approvers :
          ApproveTool(rid, approved, by)
    \/ \E t \in timers : TimerFire(t)
    \/ \E rid \in RequestIds : GateExpire(rid)
    \/ Advance

SpecApproval == Init /\ [][NextApproval]_vars

\* The event loop runs every callback that is due, the clock moves on, and
\* the runtime and chat continue whenever they can.
FairApproval ==
    /\ SpecApproval
    /\ WF_vars(Advance)
    /\ WF_vars(\E t \in timers : TimerFire(t))
    /\ WF_vars(\E rid \in RequestIds : GateExpire(rid))
    /\ WF_vars(RuntimeResume(1))
    /\ WF_vars(RuntimeFinish(1, "Your refund is on its way.", OneDuration))
    /\ WF_vars(ChatReturn(1))

\* The service's auto-approval: the approval handshake, and events that
\* reach the handler without a request id.
NextAuto ==
    \/ NextApproval
    \/ events.withoutId < MaxRequests /\ ApprovalEventWithoutId

SpecAuto == Init /\ [][NextAuto]_vars

FairAuto ==
    /\ SpecAuto
    /\ WF_vars(Advance)
    /\ WF_vars(\E t \in timers : TimerFire(t))
    /\ WF_vars(\E rid \in RequestIds : GateExpire(rid))
    /\ WF_vars(RuntimeResume(1))
    /\ WF_vars(RuntimeFinish(1, "Your refund is on its way.", OneDuration))
    /\ WF_vars(ChatReturn(1))

\* The knowledge base and the transports: initialization with its fallback,
\* ingestion, a chat call from any transport whose execution searches, and
\* health checks.
NextRag ==
    \/ \E memoryOk \in BOOLEAN : Initialize(memoryOk)
    \/ \E d \in IngestInputs : IngestDocument(d.title, d.content, d.topic)
    \/ Connect("ws")
    \/ \E origin \in Origins : ChatStart(1, NoValue, origin)
    \/ Within(1) /\ \E q \in Queries, k \in TopKs, e \in InternalErrors :
          RuntimeSearch(1, q, k, e)
    \/ \E r \in SampleResponses : RuntimeFinish(1, r, OneDuration)
    \/ \E e \in InternalErrors : RuntimeThrow(1, e)
    \/ ChatReturn(1)
    \/ ChatThrow(1)
    \/ \E check \in HealthChecks : HealthCall(check)

SpecRag == InitRag /\ [][NextRag]_vars

\* Knowledge search: the service initialized, documents ingested, and one
\* chat call whose execution searches.
NextSearch ==
    \/ Initialize(TRUE)
    \/ \E d \in IngestInputs : IngestDocument(d.title, d.content, d.topic)
    \/ ChatStart(1, NoValue, "rest")
    \/ Within(1) /\ \E q \in Queries, k \in TopKs, e \in InternalErrors :
          RuntimeSearch(1, q, k, e)
    \/ RuntimeFinish(1, "Refunds are made within 30 days.", OneDuration)
    \/ ChatReturn(1)

SpecSearch == InitRag /\ [][NextSearch]_vars

\* The step limit: chat calls whose executions reason for as many steps as
\* the loop lets them.
NextSteps ==
    \/ \E c \in ChatIds : ChatStart(c, NoValue, "rest")
    \/ \E c \in ChatIds : RuntimeStep(c, ReasoningStep)
    \/ \E c \in ChatIds : RuntimeFinish(c, "Your order has shipped.", OneDuration)
    \/ \E c \in ChatIds : ChatReturn(c)

SpecSteps == Init /\ [][NextSteps]_vars

\* The transports: clients connect and send messages, a request comes in
\* over REST or the event stream, and the execution ends or fails.
NextTransport ==
    \/ \E client \in WsClients : Connect(client)
    \/ \E client \in WsClients, msg \in WsMessages :
          InvalidCount < MaxInvalid /\ HandleMessage(1, client, msg)
    \/ \E origin \in {"rest", "sse"} : ChatStart(1, NoValue, origin)
    \/ RuntimeFinish(1, "Your order has shipped.", OneDuration)
    \/ \E e \in InternalErrors : RuntimeThrow(1, e)
    \/ ChatReturn(1)
    \/ ChatThrow(1)

SpecTransport == Init /\ [][NextTransport]_vars

\* Store selection: the service constructed in any environment, then
\* initialized and used.
NextStore ==
    \/ \E memoryOk \in BOOLEAN : Initialize(memoryOk)
    \/ \E d \in IngestInputs : IngestDocument(d.title, d.content, d.topic)
    \/ \E check \in HealthChecks : HealthCall(check)

SpecStore == InitStore /\ [][NextStore]_vars

\* Everything the service can do.
Next ==
    \/ \E c \in ChatIds, arg \in SessionArgs, origin \in Origins :
          ChatStart(c, arg, origin)
    \/ \E c \in ChatIds, step \in SampleSteps : Within(c) /\ RuntimeStep(c, step)
    \/ \E c \in ChatIds, q \in Queries, k \in TopKs, e \in InternalErrors :
          Within(c) /\ RuntimeSearch(c, q, k, e)
    \/ \E c \in ChatIds, tool \in ApprovalTools :
          \E deadline \in GateDeadlines(tool, now) :
             Within(c) /\ RuntimeRequestApproval(c, tool, deadline)
    \/ events.withoutId < MaxRequests /\ ApprovalEventWithoutId
    \/ \E c \in ChatIds : RuntimeResume(c)
    \/ \E c \in ChatIds, r \in SampleResponses, d \in SampleDurations :
          RuntimeFinish(c, r, d)
    \/ \E c \in ChatIds, e \in InternalErrors : RuntimeThrow(c, e)
    \/ \E c \in ChatIds : ChatReturn(c)
    \/ \E c \in ChatIds : ChatThrow(c)
    \/ \E rid \in RequestIds, approved \in BOOLEAN, by \in Approvers :
          ApproveTool(rid, approved, by)
    \/ \E t \in timers : TimerFire(t)
    \/ \E rid \in RequestIds : GateExpire(rid)
    \/ Advance
    \/ \E memoryOk \in BOOLEAN : Initialize(memoryOk)
    \/ \E d \in IngestInputs : IngestDocument(d.title, d.content, d.topic)
    \/ \E check \in HealthChecks : HealthCall(check)
    \/ \E client \in WsClients : Connect(client)
    \/ \E c \in ChatIds, client \in WsClients, msg \in WsMessages :
          InvalidCount < MaxInvalid /\ HandleMessage(c, client, msg)

Spec == InitStore /\ [][Next]_vars

----------------------------------------------------------------------------
(***************************************************************************)
(* The claims.                                                             *)
(***************************************************************************)

AutoCallFor(rid) ==
    \E i \in 1..Len(runtimeCalls) :
        IsAuto(runtimeCalls[i]) /\ runtimeCalls[i].requestId = rid

ManualCallFor(rid) ==
    \E i \in 1..Len(runtimeCalls) :
        IsManual(runtimeCalls[i]) /\ runtimeCalls[i].requestId = rid

\* C1: a request's resolution leaves 'pending' at most once: once a request
\* is resolved, no later resolve attempt, manual or by the timer, and no
\* deadline changes its resolution or who resolved it.
C1_ResolvesOnce ==
    [][\A rid \in 1..Len(requests) :
          requests[rid].resolution # "pending"
             => /\ Len(requests') >= rid
                /\ requests'[rid] = requests[rid]]_vars

\* C1, its case: a request rejected by hand stays rejected after the timer's
\* auto-approval was issued for it.
C1_Witness ==
    \E rid \in 1..Len(requests) :
        /\ requests[rid].resolution = "rejected"
        /\ AutoCallFor(rid)

\* C2: a request resolved by an approveTool call (approved by a person, or
\* rejected) never has approveToolExecution(requestId, 'auto-timeout')
\* issued for it.
C2_NoAutoResolutionAfterManual ==
    \A rid \in 1..Len(requests) :
        (\/ requests[rid].resolution = "rejected"
         \/ /\ requests[rid].resolution = "approved"
            /\ requests[rid].resolvedBy \in Approvers)
           => ~AutoCallFor(rid)

\* The steps of a returned chat call that record a tool call which needed
\* approval and for which no approveTool call was made.
UnattendedSteps(c) ==
    {i \in 1..Len(chats[c].result.steps) :
        /\ chats[c].result.steps[i].requestId # 0
        /\ ~ManualCallFor(chats[c].result.steps[i].requestId)}

\* C3 as stated: when no approveTool call is made for the request of a tool
\* call, the step of that tool call records timed_out.
C3_UnattendedStepTimedOut ==
    \A c \in ChatIds :
        chats[c].st = "done"
           => \A i \in UnattendedSteps(c) :
                 chats[c].result.steps[i].outcome = "timed_out"

\* The outcome of an unattended request: timed_out when the gate's deadline
\* comes before the service's 30 s timer, approved by 'auto-timeout' when the
\* timer comes first.
UnattendedOutcomeOk(step) ==
    LET r == requests[step.requestId] IN
    /\ r.deadline < r.createdAt + AutoApproveDelay => step.outcome = "timed_out"
    /\ r.deadline > r.createdAt + AutoApproveDelay
          => step.outcome = "approved" /\ r.resolvedBy = AutoTimeout

\* C3, amended: a chat call whose execution waits for an approval always
\* returns, and the step of a tool call for which no approveTool call was
\* made records approved (by the service's timer, as 'auto-timeout') when
\* the gate's deadline is later than the timer's 30 s, as processRefund's
\* 60 s is, and timed_out only when the deadline is earlier.
C3_UnattendedCompletes ==
    /\ [](\A c \in ChatIds :
            chats[c].st = "done"
               => \A i \in UnattendedSteps(c) :
                     UnattendedOutcomeOk(chats[c].result.steps[i]))
    /\ \A c \in ChatIds : (chats[c].st = "awaiting") ~> (chats[c].st = "done")

\* C3, its case: a returned chat call whose processRefund step was resolved
\* by the timer alone.
C3_Witness ==
    \E c \in ChatIds :
        /\ chats[c].st = "done"
        /\ \E i \in UnattendedSteps(c) :
              /\ chats[c].result.steps[i].toolName = "processRefund"
              /\ chats[c].result.steps[i].outcome = "approved"

\* C4: any two chat calls made without a sessionId get distinct session ids.
C4_GeneratedIdsDistinct ==
    \A c, d \in ChatIds :
        (/\ c # d
         /\ chats[c].st # "idle" /\ chats[d].st # "idle"
         /\ ~chats[c].arg.given /\ ~chats[d].arg.given)
           => chats[c].sid # chats[d].sid

\* C5 as stated: the response's sessionId is the id the runtime was given,
\* and a sessionId the caller supplied is returned unchanged.
C5_SuppliedIdReturned ==
    \A c \in ChatIds :
        chats[c].st = "done"
           => /\ chats[c].resp.sessionId = chats[c].sid
              /\ chats[c].arg.given => chats[c].resp.sessionId = chats[c].arg.value

\* C5, amended: the response's sessionId is the id the runtime was given; a
\* non-empty sessionId the caller supplied is returned unchanged (so an id
\* generated on a first call and sent back is echoed); an empty sessionId is
\* treated as absent and a new id is generated.
C5_NonEmptyIdReturned ==
    \A c \in ChatIds :
        chats[c].st = "done"
           => /\ chats[c].resp.sessionId = chats[c].sid
              /\ (chats[c].arg.given /\ chats[c].arg.value # "")
                    => chats[c].resp.sessionId = chats[c].arg.value
              /\ (chats[c].arg.given /\ chats[c].arg.value = "")
                    => chats[c].resp.sessionId # ""

\* C5, its case: a call without a sessionId got a generated id, and a later
\* call that sent that id back got it back.
C5_Witness ==
    \E c, d \in ChatIds :
        /\ c # d
        /\ chats[c].st = "done" /\ ~chats[c].arg.given
        /\ chats[d].st = "done" /\ chats[d].arg = Some(chats[c].resp.sessionId)
        /\ chats[d].resp.sessionId = chats[c].resp.sessionId

\* Whether a step is a use_tool step of the knowledge search whose output
\* lists documents.
ListsDocuments(step) ==
    /\ step.type = "use_tool"
    /\ step.toolName = "searchKnowledgeBase"
    /\ step.hasDocs

\* C8: the sources field of a chat response is never an empty list: it is
\* absent exactly when no step of the execution listed a document.
C8_SourcesNeverEmpty ==
    \A c \in ChatIds :
        chats[c].st = "done"
           => LET steps == chats[c].result.steps
                  src == chats[c].resp.sources
              IN  /\ src.present => src.list # <<>>
                  /\ src.present <=>
                        \E i \in 1..Len(steps) :
                            ListsDocuments(steps[i]) /\ steps[i].docs # <<>>

\* C8, its case: an execution searched and its search listed no document,
\* and the response has no sources field.
C8_Witness ==
    \E c \in ChatIds :
        /\ chats[c].st = "done"
        /\ \E i \in 1..Len(chats[c].result.steps) :
              ListsDocuments(chats[c].result.steps[i])
        /\ ~chats[c].resp.sources.present

\* The documents of the search steps of an execution, step after step, read
\* from the last step back.
RECURSIVE DocumentsOf(_)
DocumentsOf(steps) ==
    IF steps = <<>> THEN <<>>
    ELSE LET last == steps[Len(steps)] IN
         DocumentsOf(SubSeq(steps, 1, Len(steps) - 1))
            \o (IF ListsDocuments(last) THEN last.docs ELSE <<>>)

\* C9: the sources of a chat response are exactly the documents of the
\* execution's knowledge-search steps, in step order and in each step's
\* order; other steps contribute nothing.
C9_SourcesAreSearchDocuments ==
    \A c \in ChatIds :
        chats[c].st = "done"
           => chats[c].resp.sources.list = DocumentsOf(chats[c].result.steps)

\* C9, its case: an execution with two search steps that list documents,
\* whose response cites the documents of both.
C9_Witness ==
    \E c \in ChatIds :
        /\ chats[c].st = "done"
        /\ Len(chats[c].result.steps) = 2
        /\ \A i \in 1..2 : /\ ListsDocuments(chats[c].result.steps[i])
                           /\ chats[c].result.steps[i].docs # <<>>
        /\ chats[c].result.steps[1].docs # chats[c].result.steps[2].docs
        /\ Len(chats[c].resp.sources.list) = 3

\* C6: once initialize() has fallen back to the local backend, a knowledge
\* search for a document ingested since succeeds and returns such a document.
C6_SearchFindsIngestedAfterFallback ==
    [][\A c \in ChatIds :
          (/\ ragService = "fallback" /\ initStatus = "initialized"
           /\ Len(chats'[c].steps) = Len(chats[c].steps) + 1
           /\ chats'[c].steps[Len(chats'[c].steps)].toolName = "searchKnowledgeBase")
             => LET step == chats'[c].steps[Len(chats'[c].steps)]
                    held == backends["fallback"].docs
                    about == {i \in 1..Len(held) : held[i].topic = step.query}
                IN  about # {}
                       => /\ step.outcome = "success"
                          /\ \E i \in about, j \in 1..Len(step.docs) :
                                step.docs[j].content = held[i].content]_vars

\* C7: when the selected backend's initialize() failed, initialize() has
\* made an initialized in-memory backend the backend of the service and of
\* the runtime's configuration, and a health() call whose health check did
\* not throw reports status 'ok'.
C7_FallbackAndHealthOk ==
    (initStatus # "constructed" /\ ~Usable(backends["primary"]))
       => /\ ragService = "fallback"
          /\ configRag = "fallback"
          /\ backends["fallback"].kind = "memory"
          /\ backends["fallback"].ready
          /\ (healthResp.called /\ ~healthResp.threw) => healthResp.status = "ok"

\* C10: no error frame of the gateway or of chatStream and no result of the
\* search tool carries the text of the internal error behind it.
C10_NoRawErrorText ==
    \A e \in InternalErrors :
        /\ \A i \in 1..Len(frames) :
              frames[i].type = "error" => ~Contains(frames[i].message, e.text)
        /\ \A c \in ChatIds : \A i \in 1..Len(chats[c].steps) :
              ~Contains(chats[c].steps[i].error, e.text)

\* C11: the store the constructor built is the one the priority chain names:
\* Pinecone whenever PINECONE_API_KEY is set and not blank, Qdrant only when
\* it is not and QDRANT_URL is set and not blank, the in-memory store
\* otherwise.
C11_PriorityChain ==
    backends["primary"].kind =
        IF Configured(env.pineconeKey) THEN "pinecone"
        ELSE IF Configured(env.qdrantUrl) THEN "qdrant"
        ELSE "memory"

\* C12: a search step never fails the execution.  When the backend call
\* fails the tool's result is success=false with no documents; when it
\* succeeds the result is success=true with one document per backend result,
\* in the backend's order, and totalResults is the number of documents.
C12_SearchNeverPropagates ==
    [][\A c \in ChatIds :
          (/\ Len(chats'[c].steps) = Len(chats[c].steps) + 1
           /\ chats'[c].steps[Len(chats'[c].steps)].toolName = "searchKnowledgeBase"
           /\ chats'[c].steps[Len(chats'[c].steps)].query # "")
             => LET step == chats'[c].steps[Len(chats'[c].steps)]
                    b == backends[agentRag]
                    results == BackendSearch(b, step.query,
                                 IF step.topK = 0 THEN DefaultTopK ELSE step.topK)
                IN  /\ chats'[c].st = "executing"
                    /\ step.hasDocs
                    /\ IF Usable(b)
                       THEN /\ step.outcome = "success"
                            /\ Len(step.docs) = Len(results)
                            /\ \A j \in 1..Len(results) :
                                  /\ step.docs[j].id = results[j].id
                                  /\ step.docs[j].content = results[j].content
                                  /\ step.docs[j].score = results[j].score
                            /\ step.totalResults = Len(step.docs)
                       ELSE /\ step.outcome = "failure"
                            /\ step.docs = <<>>]_vars

\* C12, its case: a search returned the two documents the backend holds on
\* the query, first ingested first.
C12_Witness ==
    \E i \in 1..Len(chats[1].steps) :
        LET step == chats[1].steps[i] IN
        /\ step.toolName = "searchKnowledgeBase"
        /\ step.outcome = "success"
        /\ step.totalResults = 2
        /\ Len(step.docs) = 2
        /\ step.docs[1].id = "doc-1"
        /\ step.docs[2].id = "doc-2"

\* C13: an execution chat received has at most maxSteps (15) steps, one with
\* exactly maxSteps steps has status step_limit_exceeded, and the steps value
\* of the chat response is the execution's step count.
C13_StepsWithinLimit ==
    \A c \in ChatIds :
        chats[c].st \in {"finished", "done"}
           => /\ Len(chats[c].result.steps) <= AgentMaxSteps
              /\ Len(chats[c].result.steps) = AgentMaxSteps
                    => chats[c].result.status = "step_limit_exceeded"
              /\ chats[c].st = "done"
                    => chats[c].resp.steps = Len(chats[c].result.steps)

\* C13, its case: a chat returned an execution that ran into the step limit.
C13_Witness ==
    \E c \in ChatIds :
        /\ chats[c].st = "done"
        /\ chats[c].resp.steps = AgentMaxSteps
        /\ chats[c].result.status = "step_limit_exceeded"

\* C14: approveTool(requestId, approved, approvedBy) issues exactly one call
\* to the runtime for requestId, approveToolExecution(requestId, approvedBy)
\* when approved and rejectToolExecution(requestId) when not; it removes the
\* waiter registered for requestId, if any, and leaves the other waiters
\* and the timers as they were.
C14_ApproveToolForwardsOnce ==
    [][\A rid \in RequestIds, approved \in BOOLEAN, by \in Approvers :
          ApproveTool(rid, approved, by)
             => /\ Len(runtimeCalls') = Len(runtimeCalls) + 1
                /\ SubSeq(runtimeCalls', 1, Len(runtimeCalls)) = runtimeCalls
                /\ LET call == runtimeCalls'[Len(runtimeCalls')] IN
                      /\ call.requestId = rid
                      /\ call.op = IF approved THEN "approve" ELSE "reject"
                      /\ approved => call.by = by
                /\ approvalHandlers' = approvalHandlers \ {rid}
                /\ timers' = timers]_vars

\* C14, its case: approveTool has been called to approve and called to
\* reject, and the runtime received one approval by the approver and one
\* rejection.
C14_Witness ==
    /\ Len(runtimeCalls) = 2
    /\ \E i, j \in 1..Len(runtimeCalls) :
          /\ runtimeCalls[i].op = "approve" /\ runtimeCalls[i].by \in Approvers
          /\ runtimeCalls[j].op = "reject"

\* C15: a 'message' event of a connected client whose data.text is missing,
\* empty or not a string is answered with exactly one 'error' frame to that
\* client and nothing else: no chat call is made and the client stays
\* connected; a 'message' with a text, whatever came before it, gets its
\* 'thinking' frame and its chat call.
C15_InvalidTextOneErrorFrame ==
    [][\A c \in ChatIds, client \in WsClients, msg \in WsMessages :
          (HandleMessage(c, client, msg) /\ msg.event = "message")
             => IF \/ ~msg.hasData
                   \/ msg.text.kind # "string"
                   \/ msg.text.str = ""
                THEN /\ Len(frames') = Len(frames) + 1
                     /\ SubSeq(frames', 1, Len(frames)) = frames
                     /\ frames'[Len(frames')].type = "error"
                     /\ frames'[Len(frames')].channel = client
                     /\ chats' = chats
                     /\ clients' = clients
                ELSE /\ chats[c].st = "idle" /\ chats'[c].st = "executing"
                     /\ frames' = Append(frames, frames'[Len(frames')])
                     /\ frames'[Len(frames')].type = "thinking"
                     /\ frames'[Len(frames')].channel = client
                     /\ clients' = clients]_vars

\* C15, its case: a client was sent the error frame for a message without a
\* usable text and later, for another message, 'thinking' and 'response'.
C15_Witness ==
    \E client \in WsClients : \E i, j, k \in 1..Len(frames) :
        /\ i < j /\ j < k
        /\ frames[i] = InvalidMessageFrame(client)
        /\ frames[j].type = "thinking" /\ frames[j].channel = client
        /\ frames[k].type = "response" /\ frames[k].channel = client
        /\ client \in clients

\* The frames sent for chat call c, in the order they were sent.
FramesOf(c) == SelectSeq(frames, LAMBDA f : f.chat = c)

\* C16: for a valid 'message' of a connected client the frames sent are
\* 'thinking' first, then exactly one terminal frame once chat has settled:
\* 'response' when it returned, carrying the fields of the REST chat
\* response, or 'error' when it failed.
C16_ThinkingThenTerminal ==
    \A c \in ChatIds :
        chats[c].origin \in WsClients
           => LET fs == FramesOf(c) IN
              /\ Len(fs) >= 1 /\ fs[1].type = "thinking"
              /\ \A i \in 1..Len(fs) : fs[i].channel = chats[c].origin
              /\ chats[c].st \notin {"done", "thrown"} => Len(fs) = 1
              /\ chats[c].st = "done"
                    => /\ Len(fs) = 2
                       /\ fs[2].type = "response"
                       /\ DOMAIN fs[2].data = DOMAIN chats[c].resp
                       /\ \A k \in DOMAIN chats[c].resp :
                             k \in DOMAIN fs[2].data => fs[2].data[k] = chats[c].resp[k]
              /\ chats[c].st = "thrown"
                    => Len(fs) = 2 /\ fs[2].type = "error"

\* C17: a chat/stream request writes nothing before chat settles, and then
\* exactly one frame, 'response' with the chat response as its payload when
\* chat returned and 'error' when it failed, and ends the stream after it.
C17_OneFrameThenEnd ==
    \A c \in ChatIds :
        chats[c].origin = "sse"
           => LET fs == FramesOf(c) IN
              /\ chats[c].st \notin {"done", "thrown"} => fs = <<>>
              /\ chats[c].st = "done"
                    => /\ Len(fs) = 2
                       /\ fs[1].type = "response"
                       /\ DOMAIN fs[1].data = DOMAIN chats[c].resp
                       /\ fs[1].data = chats[c].resp
                       /\ fs[2].type = "end"
              /\ chats[c].st = "thrown"
                    => /\ Len(fs) = 2
                       /\ fs[1].type = "error"
                       /\ fs[2].type = "end"

\* C17, its case: a chat/stream request whose chat returned has its one
\* response frame and the end of the stream.
C17_Witness ==
    \E c \in ChatIds :
        /\ chats[c].origin = "sse" /\ chats[c].st = "done"
        /\ Len(FramesOf(c)) = 2
        /\ FramesOf(c)[1].data.executionId = chats[c].result.executionId
        /\ FramesOf(c)[2].type = "end"

\* The auto-approval calls issued for request rid.
AutoCallsFor(rid) ==
    {i \in 1..Len(runtimeCalls) :
        IsAuto(runtimeCalls[i]) /\ runtimeCalls[i].requestId = rid}

\* C18: every TOOL_APPROVAL_REQUESTED event that carries a request id is
\* followed, once its 30 seconds have passed and not before, by exactly one
\* approveToolExecution(requestId, 'auto-timeout'); an event without a
\* request id schedules nothing.
C18_AutoApprovesAfterDelay ==
    /\ [](/\ \A rid \in 1..Len(requests) :
               /\ AutoCallsFor(rid) # {}
                     => now >= requests[rid].createdAt + AutoApproveDelay
               /\ Cardinality(AutoCallsFor(rid))
                     + Cardinality({t \in timers : t.requestId = rid}) = 1
           /\ \A t \in timers :
                 /\ t.requestId \in 1..Len(requests)
                 /\ t.due = requests[t.requestId].createdAt + AutoApproveDelay
           /\ \A i \in 1..Len(runtimeCalls) :
                 IsAuto(runtimeCalls[i])
                    => runtimeCalls[i].requestId \in 1..Len(requests)
           /\ events.withId = Len(requests))
    /\ \A rid \in RequestIds :
          (rid \in 1..Len(requests)) ~> (AutoCallsFor(rid) # {})

\* C18, its case: an event without a request id was handled, and a request
\* nobody answered got its auto-approval call when its 30 seconds were up.
C18_Witness ==
    /\ events.withoutId > 0
    /\ \E rid \in 1..Len(requests) :
          /\ Cardinality(AutoCallsFor(rid)) = 1
          /\ ~ManualCallFor(rid)
          /\ now = requests[rid].createdAt + AutoApproveDelay

====
